---- MODULE Spec2Model ----
(***************************************************************************)
(* A model of the JSON-RPC greeting server: the actix-web application      *)
(* built in src/main.rs (and by the test modules of src/main.rs and        *)
(* src/routes/json_rpc.rs), its web::Json<GreetingRequest> extractor and   *)
(* the two copies of json_rpc_handler.                                     *)
(*                                                                         *)
(* Strings are sequences of one-character strings.  A request body is an   *)
(* abstract JSON value (the tree a JSON parser sees) together with its     *)
(* size in bytes; a response body is the sequence of text chunks that      *)
(* serde_json writes, whose concatenation is the byte string sent.         *)
(* Requests are taken to carry Content-Type: application/json, as the      *)
(* tests' set_json does.                                                   *)
(***************************************************************************)
EXTENDS Integers, Sequences, FiniteSets, TLC

VARIABLES conn

vars == <<conn>>

(***************************************************************************)
(* Bounds of the model.                                                    *)
(***************************************************************************)
MaxNameLen == 3
MaxInflight == 2

(***************************************************************************)
(* Program constants.  JSON_LIMIT is the limit main() configures;          *)
(* DEFAULT_LIMIT is the limit actix-web's JsonConfig has when none is      *)
(* configured (2 MiB).  The extractor answers a body over the limit with   *)
(* 413 and a body it cannot decode with 400.                               *)
(***************************************************************************)
JSON_LIMIT == 4096
DEFAULT_LIMIT == 2097152
METHOD_NOT_FOUND == -32601
STATUS_OK == 200
STATUS_BAD_REQUEST == 400
STATUS_PAYLOAD_TOO_LARGE == 413

(***************************************************************************)
(* String literals of the source.                                          *)
(***************************************************************************)
greeting_literal == <<"g", "r", "e", "e", "t", "i", "n", "g">>
World == <<"W", "o", "r", "l", "d">>
HelloPrefix == <<"H", "e", "l", "l", "o", ",", " ">>
Bang == <<"!">>
MethodNotFoundMessage ==
    <<"M", "e", "t", "h", "o", "d", " ", "n", "o", "t", " ", "f", "o", "u", "n", "d">>

(***************************************************************************)
(* str::trim: strips the characters for which char::is_whitespace holds    *)
(* from both ends, and nothing else.                                       *)
(***************************************************************************)
IsWhitespace(c) == c \in {" ", "\t", "\n", "\r", "\f"}

RECURSIVE TrimStart(_)
TrimStart(s) ==
    IF s = <<>> THEN <<>>
    ELSE IF IsWhitespace(Head(s)) THEN TrimStart(Tail(s))
    ELSE s

RECURSIVE TrimEnd(_)
TrimEnd(s) ==
    IF s = <<>> THEN <<>>
    ELSE IF IsWhitespace(s[Len(s)]) THEN TrimEnd(SubSeq(s, 1, Len(s) - 1))
    ELSE s

\* A trim that forgets the trailing whitespace.
TrimLeadingOnly(s) == TrimStart(s)

Trim(s) == TrimEnd(TrimStart(s))

(***************************************************************************)
(* json_rpc_handler of src/main.rs.                                        *)
(***************************************************************************)
\* A match that trims and lower-cases the method before comparing it.
RECURSIVE LowerCase(_)
LowerCase(s) ==
    IF s = <<>> THEN <<>>
    ELSE <<IF Head(s) = "G" THEN "g" ELSE Head(s)>> \o LowerCase(Tail(s))

MatchesLoosely(method) == LowerCase(Trim(method)) = greeting_literal

\* match item.method.as_str() { "greeting" => ..., _ => ... }
MatchesGreeting(method) == method = greeting_literal

\* let mut name = trim(); if name.is_empty() { name = "World" }; format!("Hello, {name}!")
FormatGreeting(name) ==
    LET trimmed == Trim(name)
        subject == IF trimmed = <<>> THEN World ELSE trimmed
    IN  HelloPrefix \o subject \o Bang

\* A success envelope that answers with the protocol version it knows.
GreetingResponseDefaulted(item) ==
    [id |-> Trim(item.id),
     jsonrpc |-> IF item.jsonrpc = <<>> THEN <<"2", ".", "0">> ELSE item.jsonrpc,
     result |-> [greeting |-> FormatGreeting(item.params.name)]]

GreetingResponse(item) ==
    [id |-> item.id,
     jsonrpc |-> item.jsonrpc,
     result |-> [greeting |-> FormatGreeting(item.params.name)]]

\* An error envelope with the code of "Invalid Request".
MethodNotFoundWrongCode(item) ==
    [error |-> [code |-> -32600, message |-> MethodNotFoundMessage],
     id |-> item.id,
     jsonrpc |-> item.jsonrpc]

MethodNotFoundErrorResponse(item) ==
    [error |-> [code |-> METHOD_NOT_FOUND, message |-> MethodNotFoundMessage],
     id |-> item.id,
     jsonrpc |-> item.jsonrpc]

(***************************************************************************)
(* serde_json's serialisation of the response structs: the fields in the   *)
(* order the struct declares them, strings quoted and escaped, the code    *)
(* as a bare integer.                                                      *)
(***************************************************************************)
EscapeChar(c) ==
    CASE c = "\"" -> "\\\""
      [] c = "\\" -> "\\\\"
      [] c = "\t" -> "\\t"
      [] c = "\n" -> "\\n"
      [] c = "\r" -> "\\r"
      [] c = "\f" -> "\\f"
      [] OTHER -> c

JsonString(s) == <<"\"">> \o [i \in 1..Len(s) |-> EscapeChar(s[i])] \o <<"\"">>

DigitChar(d) == <<"0", "1", "2", "3", "4", "5", "6", "7", "8", "9">>[d + 1]

RECURSIVE Decimal(_)
Decimal(n) == IF n < 10 THEN <<DigitChar(n)>> ELSE Decimal(n \div 10) \o <<DigitChar(n % 10)>>

JsonInteger(n) == IF n < 0 THEN <<"-">> \o Decimal(-n) ELSE Decimal(n)

SerializeGreetingResponse(r) ==
    <<"{\"id\":">> \o JsonString(r.id)
    \o <<",\"jsonrpc\":">> \o JsonString(r.jsonrpc)
    \o <<",\"result\":{\"greeting\":">> \o JsonString(r.result.greeting)
    \o <<"}}">>

SerializeMethodNotFoundErrorResponse(r) ==
    <<"{\"error\":{\"code\":">> \o JsonInteger(r.error.code)
    \o <<",\"message\":">> \o JsonString(r.error.message)
    \o <<"},\"id\":">> \o JsonString(r.id)
    \o <<",\"jsonrpc\":">> \o JsonString(r.jsonrpc)
    \o <<"}">>

Serialize(r) ==
    IF "result" \in DOMAIN r
    THEN SerializeGreetingResponse(r)
    ELSE SerializeMethodNotFoundErrorResponse(r)

\* A responder that reports a JSON-RPC error through the HTTP status too.
HttpStatusByOutcome(response) ==
    [status |-> IF "error" \in DOMAIN response THEN 404 ELSE STATUS_OK,
     json |-> response,
     body |-> Serialize(response)]

\* HttpResponse::Ok().json(response)
HttpResponseOkJson(response) ==
    [status |-> STATUS_OK, json |-> response, body |-> Serialize(response)]

\* A dispatcher whose success envelope also carries an error member.
DispatchBothMembers(item) ==
    IF MatchesGreeting(item.method)
    THEN HttpResponseOkJson(
             [id |-> item.id,
              jsonrpc |-> item.jsonrpc,
              result |-> [greeting |-> FormatGreeting(item.params.name)],
              error |-> [code |-> METHOD_NOT_FOUND, message |-> MethodNotFoundMessage]])
    ELSE HttpResponseOkJson(MethodNotFoundErrorResponse(item))

json_rpc_handler(item) ==
    IF MatchesGreeting(item.method)
    THEN HttpResponseOkJson(GreetingResponse(item))
    ELSE HttpResponseOkJson(MethodNotFoundErrorResponse(item))

(***************************************************************************)
(* json_rpc_handler of src/routes/json_rpc.rs, the second copy.            *)
(***************************************************************************)
\* A copy that lost the "World" default.
routes_handler_no_default(item) ==
    IF item.method = greeting_literal
    THEN HttpResponseOkJson(
             [id |-> item.id,
              jsonrpc |-> item.jsonrpc,
              result |-> [greeting |-> HelloPrefix \o Trim(item.params.name) \o Bang]])
    ELSE HttpResponseOkJson(MethodNotFoundErrorResponse(item))

routes_json_rpc_handler(item) ==
    IF item.method = greeting_literal
    THEN LET trimmed == Trim(item.params.name)
             name == IF trimmed = <<>> THEN World ELSE trimmed
             greeting == HelloPrefix \o name \o Bang
         IN  HttpResponseOkJson(
                 [id |-> item.id,
                  jsonrpc |-> item.jsonrpc,
                  result |-> [greeting |-> greeting]])
    ELSE HttpResponseOkJson(
             [error |-> [code |-> METHOD_NOT_FOUND, message |-> MethodNotFoundMessage],
              id |-> item.id,
              jsonrpc |-> item.jsonrpc])

(***************************************************************************)
(* Request bodies: JSON values.  Every value is a record of one shape: t   *)
(* is the kind, s the text of a string, kv the members of an object (key,  *)
(* value) or the items of an array (key "").  "invalid" is a body that is  *)
(* not JSON at all.                                                        *)
(***************************************************************************)
JInvalid == [t |-> "invalid", s |-> <<>>, kv |-> <<>>]
JNull == [t |-> "null", s |-> <<>>, kv |-> <<>>]
JNumber == [t |-> "num", s |-> <<>>, kv |-> <<>>]
JStr(s) == [t |-> "str", s |-> s, kv |-> <<>>]
JObj(kv) == [t |-> "obj", s |-> <<>>, kv |-> kv]
JArr(items) == [t |-> "arr", s |-> <<>>, kv |-> [i \in 1..Len(items) |-> <<"", items[i]>>]]

(***************************************************************************)
(* #[derive(Deserialize)] on GreetingParams and GreetingRequest, driven by *)
(* serde_json.  A String field takes a JSON string and nothing else.  A    *)
(* struct is read from a JSON object (visit_map: every field exactly once, *)
(* a repeated field is an error, an unknown key is skipped) or from a JSON *)
(* array (visit_seq: the fields by position, exactly as many items as      *)
(* fields); any other JSON value is an invalid type.                       *)
(***************************************************************************)
Occurrences(kv, key) == {i \in 1..Len(kv) : kv[i][1] = key}

Member(kv, key) == kv[CHOOSE i \in Occurrences(kv, key) : TRUE][2]

StringOk(v) == v.t = "str"

ParamsFields == <<"name">>

ParamsOk(v) ==
    CASE v.t = "obj" ->
           /\ Cardinality(Occurrences(v.kv, "name")) = 1
           /\ StringOk(Member(v.kv, "name"))
      [] v.t = "arr" ->
           /\ Len(v.kv) = Len(ParamsFields)
           /\ StringOk(v.kv[1][2])
      [] OTHER -> FALSE

DecodeParams(v) ==
    IF v.t = "obj"
    THEN [name |-> Member(v.kv, "name").s]
    ELSE [name |-> v.kv[1][2].s]

RequestFields == <<"id", "jsonrpc", "method", "params">>

RequestOk(v) ==
    CASE v.t = "obj" ->
           /\ \A i \in 1..Len(RequestFields) :
                  Cardinality(Occurrences(v.kv, RequestFields[i])) = 1
           /\ StringOk(Member(v.kv, "id"))
           /\ StringOk(Member(v.kv, "jsonrpc"))
           /\ StringOk(Member(v.kv, "method"))
           /\ ParamsOk(Member(v.kv, "params"))
      [] v.t = "arr" ->
           /\ Len(v.kv) = Len(RequestFields)
           /\ StringOk(v.kv[1][2])
           /\ StringOk(v.kv[2][2])
           /\ StringOk(v.kv[3][2])
           /\ ParamsOk(v.kv[4][2])
      [] OTHER -> FALSE

DecodeRequest(v) ==
    IF v.t = "obj"
    THEN [id |-> Member(v.kv, "id").s,
          jsonrpc |-> Member(v.kv, "jsonrpc").s,
          method |-> Member(v.kv, "method").s,
          params |-> DecodeParams(Member(v.kv, "params"))]
    ELSE [id |-> v.kv[1][2].s,
          jsonrpc |-> v.kv[2][2].s,
          method |-> v.kv[3][2].s,
          params |-> DecodeParams(v.kv[4][2])]

(***************************************************************************)
(* The inputs: the strings a client may send, and the bodies built from    *)
(* them.                                                                   *)
(***************************************************************************)
NameChars == {" ", "\t", "O"}

SeqsUpTo(n) == UNION {[1..k -> NameChars] : k \in 0..n}

Oliver == <<"O", "l", "i", "v", "e", "r">>

\* The names of the tests, and every short string over NameChars.
Names ==
    SeqsUpTo(MaxNameLen)
    \cup {Oliver, Oliver \o <<" ">>, <<" ">> \o Oliver, <<" ">> \o Oliver \o <<" ">>}

Methods ==
    {greeting_literal,
     <<"G", "r", "e", "e", "t", "i", "n", "g">>,
     <<" ">> \o greeting_literal,
     greeting_literal \o <<" ">>,
     <<"\t">> \o greeting_literal \o <<" ">>,
     <<"g", "r", "e", "e", "t">>,
     <<"w", "r", "o", "n", "g">>,
     <<>>}

Ids == {<<>>, <<"0">>, <<" ", "7", " ">>}

Versions == {<<"2", ".", "0">>, <<>>, <<" ", "1", ".", "0">>}

Envelope(id, jsonrpc, method, params) ==
    JObj(<<<<"id", id>>, <<"jsonrpc", jsonrpc>>, <<"method", method>>, <<"params", params>>>>)

NamedParams(name) == JObj(<<<<"name", JStr(name)>>>>)

\* The request of the wire format, for every choice of its four strings.
WireBodies ==
    {Envelope(JStr(i), JStr(v), JStr(m), NamedParams(n)) :
        i \in Ids, v \in Versions, m \in Methods, n \in Names}

Without(kv, k) == SubSeq(kv, 1, k - 1) \o SubSeq(kv, k + 1, Len(kv))

SampleEnvelope == Envelope(JStr(<<"0">>), JStr(<<"2", ".", "0">>), JStr(greeting_literal),
                           NamedParams(<<"O">>))

WrongValues == {JNull, JNumber, JArr(<<>>), JObj(<<>>)}

\* Bodies that are not the wire format's request.
OtherBodies ==
    {JInvalid, JNull, JNumber, JStr(greeting_literal), JObj(<<>>), JArr(<<>>)}
    \cup {JObj(Without(SampleEnvelope.kv, k)) : k \in 1..4}
    \cup {JObj([SampleEnvelope.kv EXCEPT ![k] = <<@[1], w>>]) : k \in 1..4, w \in WrongValues}
    \cup {Envelope(JStr(<<"0">>), JStr(<<>>), JStr(m), p) :
             m \in {greeting_literal, <<>>},
             p \in {JStr(<<"O">>),
                    JObj(<<<<"name", JNumber>>>>),
                    JObj(<<<<"name", JStr(<<"O">>)>>, <<"name", JStr(<<>>)>>>>),
                    JObj(<<<<"name", JStr(<<"O">>)>>, <<"extra", JNull>>>>),
                    JArr(<<JStr(<<" ", "O">>)>>),
                    JArr(<<JStr(<<"O">>), JStr(<<"O">>)>>)}}
    \cup {JObj(SampleEnvelope.kv \o <<<<"id", JStr(<<>>)>>>>),
          JObj(SampleEnvelope.kv \o <<<<"extra", JNumber>>>>)}
    \cup {JArr(<<JStr(<<"0">>), JStr(<<"2", ".", "0">>), JStr(m), NamedParams(<<"O", " ">>)>>) :
             m \in {greeting_literal, <<"w", "r", "o", "n", "g">>}}
    \cup {JArr(<<JStr(<<"0">>), JStr(<<"2", ".", "0">>), JStr(greeting_literal)>>),
          JArr(<<JStr(<<"0">>), JStr(<<"2", ".", "0">>), JStr(greeting_literal),
                 NamedParams(<<"O">>), JNull>>),
          JArr(<<JStr(<<"0">>), JNumber, JStr(greeting_literal), NamedParams(<<"O">>)>>)}

Bodies == WireBodies \cup OtherBodies

\* The bodies of the concurrent specification: few, so that every
\* interleaving of MaxInflight requests is explored.
FewBodies ==
    {Envelope(JStr(i), JStr(<<"2", ".", "0">>), JStr(m), NamedParams(n)) :
        i \in {<<"0">>, <<"1">>},
        m \in {greeting_literal, <<"w", "r", "o", "n", "g">>},
        n \in {<<>>, <<" ", "O">>}}
    \cup {JInvalid}

\* Body sizes in bytes, around the two limits (a body of any content can
\* have any of these sizes: JSON allows padding with white space).
Sizes == {JSON_LIMIT - 1, JSON_LIMIT, JSON_LIMIT + 1, DEFAULT_LIMIT, DEFAULT_LIMIT + 1}

(***************************************************************************)
(* The applications that mount the handler on "/": the server of main(),   *)
(* with JsonConfig::default().limit(4096), and the test applications of    *)
(* src/main.rs and src/routes/json_rpc.rs, built without a JsonConfig and  *)
(* so with the framework's default limit.                                  *)
(***************************************************************************)
Apps == {"main", "main_tests", "routes_tests"}

Limit(app) == IF app = "main" THEN JSON_LIMIT ELSE DEFAULT_LIMIT

\* A size check that is off by one.
OverflowsAtLimit(app, size) == size >= Limit(app)

\* JsonBody: a body longer than the limit is refused before it is decoded.
Overflows(app, size) == size > Limit(app)

HandlerOf(app, item) ==
    IF app = "routes_tests" THEN routes_json_rpc_handler(item) ELSE json_rpc_handler(item)

(***************************************************************************)
(* The state: one record per connection the server is handling.            *)
(***************************************************************************)
Conns == 1..MaxInflight

NoItem == [id |-> <<>>, jsonrpc |-> <<>>, method |-> <<>>, params |-> [name |-> <<>>]]
NoResponse == [status |-> 0, json |-> <<>>, body |-> <<>>]

Idle == [pc |-> "idle", app |-> "main", size |-> 0, body |-> JNull,
         item |-> NoItem, resp |-> NoResponse]

Init == conn = [c \in Conns |-> Idle]

\* A client POSTs a body to "/" of an application.
Receive(c, sizes, bodies) ==
    /\ conn[c].pc = "idle"
    /\ \E app \in Apps, size \in sizes, body \in bodies :
          conn' = [conn EXCEPT ![c] = [Idle EXCEPT !.pc = "received", !.app = app,
                                                   !.size = size, !.body = body]]

\* The web::Json<GreetingRequest> extractor: the size check, then the
\* decoding; a failure is answered by the framework and the handler is
\* not called.
Extract(c) ==
    /\ conn[c].pc = "received"
    /\ conn' = [conn EXCEPT ![c] =
          IF Overflows(conn[c].app, conn[c].size)
          THEN [conn[c] EXCEPT !.pc = "rejected",
                               !.resp = [NoResponse EXCEPT !.status = STATUS_PAYLOAD_TOO_LARGE]]
          ELSE IF ~RequestOk(conn[c].body)
          THEN [conn[c] EXCEPT !.pc = "rejected",
                               !.resp = [NoResponse EXCEPT !.status = STATUS_BAD_REQUEST]]
          ELSE [conn[c] EXCEPT !.pc = "extracted", !.item = DecodeRequest(conn[c].body)]]

\* A handler that answers from a buffer shared by the connections: the
\* item of the first connection that holds one.
HandleShared(c) ==
    /\ conn[c].pc = "extracted"
    /\ LET first == CHOOSE d \in Conns :
                       /\ conn[d].pc \in {"extracted", "done"}
                       /\ \A e \in Conns : conn[e].pc \in {"extracted", "done"} => d <= e
       IN  conn' = [conn EXCEPT ![c].pc = "done",
                                ![c].resp = HandlerOf(conn[c].app, conn[first].item)]

\* json_rpc_handler runs on the decoded item.
Handle(c) ==
    /\ conn[c].pc = "extracted"
    /\ conn' = [conn EXCEPT ![c].pc = "done",
                            ![c].resp = HandlerOf(conn[c].app, conn[c].item)]

\* The response is sent; the request's values are dropped.
Respond(c) ==
    /\ conn[c].pc \in {"done", "rejected"}
    /\ conn' = [conn EXCEPT ![c] = Idle]

\* One connection at a time, every input.
Next ==
    \/ Receive(1, Sizes, Bodies)
    \/ Extract(1)
    \/ Handle(1)
    \/ Respond(1)

Spec == Init /\ [][Next]_vars

\* MaxInflight connections handled concurrently, in any interleaving.
NextConcurrent ==
    \E c \in Conns :
        \/ Receive(c, {JSON_LIMIT}, FewBodies)
        \/ Extract(c)
        \/ Handle(c)
        \/ Respond(c)

SpecConcurrent == Init /\ [][NextConcurrent]_vars

(***************************************************************************)
(* Vocabulary of the properties.                                           *)
(***************************************************************************)
IsSuccessEnvelope(r) == DOMAIN r = {"id", "jsonrpc", "result"}

IsErrorEnvelope(r) == DOMAIN r = {"error", "id", "jsonrpc"}

AllWhitespace(s) == \A i \in 1..Len(s) : IsWhitespace(s[i])

\* t is s without its leading and trailing whitespace, and nothing else
\* removed: s is whitespace, t, whitespace, and t neither starts nor ends
\* with whitespace.
IsTrimOf(t, s) ==
    /\ t = <<>> \/ (~IsWhitespace(t[1]) /\ ~IsWhitespace(t[Len(t)]))
    /\ \E i \in 1..(Len(s) + 1) :
          /\ i + Len(t) - 1 <= Len(s)
          /\ SubSeq(s, i, i + Len(t) - 1) = t
          /\ AllWhitespace(SubSeq(s, 1, i - 1))
          /\ AllWhitespace(SubSeq(s, i + Len(t), Len(s)))

Pieces(s) == {SubSeq(s, i, j) : i \in 1..(Len(s) + 1), j \in 0..Len(s)}

\* "Hello, " + trim(name) + "!", with "World" for an empty trim(name).
ExpectedGreetings(name) ==
    {HelloPrefix \o (IF t = <<>> THEN World ELSE t) \o Bang :
        t \in {p \in Pieces(name) : IsTrimOf(p, name)}}

\* The request as the client wrote it: an object with the four members,
\* id, jsonrpc and method strings, params an object.
IsWireObject(v) ==
    /\ v.t = "obj"
    /\ \A k \in 1..Len(RequestFields) : Occurrences(v.kv, RequestFields[k]) # {}
    /\ \A i \in 1..Len(v.kv) :
          /\ v.kv[i][1] \in {"id", "jsonrpc", "method"} => v.kv[i][2].t = "str"
          /\ v.kv[i][1] = "params" => v.kv[i][2].t = "obj"

Dispatched(c) == conn[c].pc \in {"extracted", "done"}

(***************************************************************************)
(* C1: a decoded request whose method is exactly "greeting" is answered    *)
(* with a Success Envelope that carries the request's id and jsonrpc and   *)
(* the greeting "Hello, " + trim(name) + "!", trim removing the leading    *)
(* and trailing whitespace only and "World" standing in for an empty       *)
(* trimmed name.                                                           *)
(***************************************************************************)
C1_GreetingSuccess ==
    \A c \in Conns :
        (conn[c].pc = "done" /\ conn[c].item.method = greeting_literal) =>
            /\ IsSuccessEnvelope(conn[c].resp.json)
            /\ conn[c].resp.json.id = conn[c].item.id
            /\ conn[c].resp.json.jsonrpc = conn[c].item.jsonrpc
            /\ DOMAIN conn[c].resp.json.result = {"greeting"}
            /\ ExpectedGreetings(conn[c].item.params.name)
                 = {conn[c].resp.json.result.greeting}

C1_Witness ==
    /\ conn[1].pc = "done"
    /\ conn[1].item.method = greeting_literal
    /\ conn[1].item.params.name = <<" ", "O", "\t">>
    /\ conn[1].resp.json.result.greeting = <<"H", "e", "l", "l", "o", ",", " ", "O", "!">>

(***************************************************************************)
(* C2: a decoded request whose method is anything but "greeting" (the      *)
(* empty string included) is answered with an Error Envelope: code the     *)
(* integer -32601, message "Method not found", id and jsonrpc those of the *)
(* request, whatever params.name is.                                       *)
(***************************************************************************)
C2_UnknownMethodError ==
    \A c \in Conns :
        (conn[c].pc = "done" /\ conn[c].item.method # greeting_literal) =>
            /\ IsErrorEnvelope(conn[c].resp.json)
            /\ DOMAIN conn[c].resp.json.error = {"code", "message"}
            /\ conn[c].resp.json.error.code \in Int
            /\ conn[c].resp.json.error.code = -32601
            /\ conn[c].resp.json.error.message = MethodNotFoundMessage
            /\ conn[c].resp.json.id = conn[c].item.id
            /\ conn[c].resp.json.jsonrpc = conn[c].item.jsonrpc
            /\ SubSeq(conn[c].resp.body, 1, 8)
                 = <<"{\"error\":{\"code\":", "-", "3", "2", "6", "0", "1", ",\"message\":">>

C2_Witness ==
    /\ conn[1].pc = "done"
    /\ conn[1].item.method = <<>>
    /\ conn[1].item.params.name = Oliver
    /\ IsErrorEnvelope(conn[1].resp.json)

(***************************************************************************)
(* C3: every decoded request gets a response (the handler can always run), *)
(* and the response has a result and no error, or an error and no result:  *)
(* never both, never neither.                                              *)
(***************************************************************************)
C3_ExactlyOneOutcome ==
    \A c \in Conns :
        /\ conn[c].pc = "extracted" => ENABLED Handle(c)
        /\ conn[c].pc = "done" =>
              /\ ("result" \in DOMAIN conn[c].resp.json) # ("error" \in DOMAIN conn[c].resp.json)
              /\ IsSuccessEnvelope(conn[c].resp.json) \/ IsErrorEnvelope(conn[c].resp.json)
              /\ conn[c].resp.body = Serialize(conn[c].resp.json)

C3_Witness ==
    /\ conn[1].pc = "done"
    /\ "result" \in DOMAIN conn[1].resp.json
    /\ "error" \notin DOMAIN conn[1].resp.json

(***************************************************************************)
(* C4: the response to a decoded request has HTTP status 200, for a known  *)
(* method and for an unknown one alike.                                    *)
(***************************************************************************)
C4_AlwaysStatusOk ==
    \A c \in Conns : conn[c].pc = "done" => conn[c].resp.status = 200

C4_Witness ==
    /\ conn[1].pc = "done"
    /\ IsErrorEnvelope(conn[1].resp.json)
    /\ conn[1].resp.status = 200

(***************************************************************************)
(* C5: the method is matched exactly: a method that is "greeting" but for  *)
(* letter case or surrounding whitespace gets the -32601 Error Envelope,   *)
(* although the same whitespace around params.name is trimmed away.        *)
(***************************************************************************)
C5_ExactMethodMatch ==
    \A c \in Conns :
        conn[c].pc = "done" =>
            /\ (/\ conn[c].item.method # greeting_literal
                /\ LowerCase(Trim(conn[c].item.method)) = greeting_literal) =>
                  /\ IsErrorEnvelope(conn[c].resp.json)
                  /\ conn[c].resp.json.error.code = -32601
            /\ (/\ conn[c].item.method = greeting_literal
                /\ \E ws \in {" ", "\t"} :
                      conn[c].item.params.name \in {<<ws, "O">>, <<"O", ws>>, <<ws, "O", ws>>}) =>
                  /\ IsSuccessEnvelope(conn[c].resp.json)
                  /\ conn[c].resp.json.result.greeting = HelloPrefix \o <<"O">> \o Bang

C5_Witness ==
    /\ conn[1].pc = "done"
    /\ conn[1].item.method = <<" ">> \o greeting_literal
    /\ conn[1].item.params.name = <<" ", "O">>
    /\ IsErrorEnvelope(conn[1].resp.json)

(***************************************************************************)
(* C6: a body that is not valid JSON, not a JSON object, lacks one of id,  *)
(* jsonrpc, method, params, or has id, jsonrpc or method that is not a     *)
(* string or params that is not an object, never reaches the handler.      *)
(***************************************************************************)
C6_MalformedNeverDispatched ==
    \A c \in Conns : Dispatched(c) => IsWireObject(conn[c].body)

(***************************************************************************)
(* C7, as claimed: whatever application mounts the handler, a body of more *)
(* than 4096 bytes never reaches the handler and a body of at most 4096    *)
(* bytes is not refused for its size.                                      *)
(***************************************************************************)
C7_LimitOnEveryMount ==
    \A c \in Conns :
        /\ conn[c].size > JSON_LIMIT => ~Dispatched(c)
        /\ conn[c].resp.status = STATUS_PAYLOAD_TOO_LARGE => conn[c].size > JSON_LIMIT

(***************************************************************************)
(* C7, amended: in the server main() builds, a body of more than 4096      *)
(* bytes is refused before it is decoded and never reaches the handler,    *)
(* and a body of at most 4096 bytes is not refused for its size.  An       *)
(* application that mounts the handler without the JsonConfig refuses a    *)
(* body for its size only above the framework's default limit.             *)
(***************************************************************************)
C7_LimitOfMain ==
    \A c \in Conns :
        /\ conn[c].app = "main" =>
              /\ conn[c].size > JSON_LIMIT => ~Dispatched(c)
              /\ (conn[c].size > JSON_LIMIT /\ conn[c].pc = "rejected") =>
                    conn[c].resp.status = STATUS_PAYLOAD_TOO_LARGE
              /\ conn[c].resp.status = STATUS_PAYLOAD_TOO_LARGE => conn[c].size > JSON_LIMIT
        /\ conn[c].app # "main" =>
              (conn[c].resp.status = STATUS_PAYLOAD_TOO_LARGE <=>
                  (conn[c].pc = "rejected" /\ conn[c].size > DEFAULT_LIMIT))

C7_Witness ==
    /\ conn[1].app = "main"
    /\ conn[1].size = JSON_LIMIT + 1
    /\ conn[1].pc = "rejected"
    /\ RequestOk(conn[1].body)
    /\ conn[1].resp.status = STATUS_PAYLOAD_TOO_LARGE

Answered(c) == conn[c].pc \in {"done", "rejected"}

SameRequestSameResponse ==
    \A c, d \in Conns :
        (Answered(c) /\ Answered(d) /\ conn[c].body = conn[d].body) =>
            /\ conn[c].resp.status = conn[d].resp.status
            /\ conn[c].resp.body = conn[d].resp.body

OneConnectionPerStep ==
    \A c \in Conns : conn'[c] # conn[c] => \A d \in Conns \ {c} : conn'[d] = conn[d]

(***************************************************************************)
(* C8: the response is a function of the request alone: two connections    *)
(* that were sent the same body hold the same response, byte for byte,     *)
(* whatever was handled before or is handled meanwhile; and a step of one  *)
(* connection changes nothing of any other connection.                     *)
(***************************************************************************)
C8_ResponseFunctionOfRequest == []SameRequestSameResponse /\ [][OneConnectionPerStep]_vars

C8_Witness ==
    /\ conn[1].pc = "done"
    /\ conn[2].pc = "done"
    /\ conn[1].body = conn[2].body
    /\ conn[1].app # conn[2].app
    /\ conn[1].resp.body = conn[2].resp.body
    /\ IsSuccessEnvelope(conn[1].resp.json)

(***************************************************************************)
(* C9: id and jsonrpc are only echoed: the response carries the strings    *)
(* the request gave, unchanged (empty, padded with whitespace, a version   *)
(* other than "2.0"), and the kind of the response and the greeting are    *)
(* those of any other id and jsonrpc with the same method and name.        *)
(***************************************************************************)
C9_IdAndVersionOpaque ==
    \A c \in Conns :
        conn[c].pc = "done" =>
            /\ conn[c].resp.json.id = conn[c].item.id
            /\ conn[c].resp.json.jsonrpc = conn[c].item.jsonrpc
            /\ conn[c].body.t = "obj" =>
                  /\ conn[c].resp.json.id = Member(conn[c].body.kv, "id").s
                  /\ conn[c].resp.json.jsonrpc = Member(conn[c].body.kv, "jsonrpc").s
            /\ \A i \in Ids, v \in Versions :
                  LET other == HandlerOf(conn[c].app,
                                         [conn[c].item EXCEPT !.id = i, !.jsonrpc = v])
                  IN  /\ other.status = conn[c].resp.status
                      /\ DOMAIN other.json = DOMAIN conn[c].resp.json
                      /\ "result" \in DOMAIN other.json =>
                            other.json.result = conn[c].resp.json.result
                      /\ "error" \in DOMAIN other.json =>
                            other.json.error = conn[c].resp.json.error

C9_Witness ==
    /\ conn[1].pc = "done"
    /\ conn[1].item.id = <<" ", "7", " ">>
    /\ conn[1].item.jsonrpc = <<>>
    /\ conn[1].resp.json.id = <<" ", "7", " ">>
    /\ conn[1].resp.json.jsonrpc = <<>>
    /\ IsSuccessEnvelope(conn[1].resp.json)

(***************************************************************************)
(* C10: the handler of src/main.rs and the handler of                      *)
(* src/routes/json_rpc.rs answer every decoded request alike: the same     *)
(* HTTP status and the same envelope, field for field.                     *)
(***************************************************************************)
C10_HandlersEquivalent ==
    \A c \in Conns :
        conn[c].pc = "done" =>
            /\ conn[c].resp.status = json_rpc_handler(conn[c].item).status
            /\ conn[c].resp.status = routes_json_rpc_handler(conn[c].item).status
            /\ conn[c].resp.json = json_rpc_handler(conn[c].item).json
            /\ conn[c].resp.json = routes_json_rpc_handler(conn[c].item).json
            /\ conn[c].resp.body = json_rpc_handler(conn[c].item).body
            /\ conn[c].resp.body = routes_json_rpc_handler(conn[c].item).body

C10_Witness ==
    /\ conn[1].pc = "done"
    /\ conn[1].app = "routes_tests"
    /\ conn[1].item.method = greeting_literal
    /\ conn[1].item.params.name = <<"\t", " ">>
    /\ conn[1].resp.json.result.greeting = HelloPrefix \o World \o Bang

====
